---- MODULE Spec2Model ----
(***************************************************************************)
(* Model of the Obsidian syllable-counter plugin (src/main.ts).            *)
(*                                                                         *)
(* Text is a sequence of one-character strings.  Time is abstracted: a     *)
(* timer (a debounce slot, the 50 ms follow-up) is a pending flag or a     *)
(* counter, and it fires at a nondeterministic later step.                 *)
(*                                                                         *)
(* updateSyllableCounts is declared async and its callers never await it.  *)
(* The model lets other callbacks run at one point inside a pass, after    *)
(* the old markers are cleared and before the editor is measured.  Every   *)
(* schedule of the present body (which contains no await) is a schedule of *)
(* the model in which PassEnd directly follows the step that began the     *)
(* pass.  SpecAtomic is the plugin with the call run as one step.          *)
(* SpecPass, SpecPassFail and SpecSeen are the call alone on every input,  *)
(* SpecRange its range determination alone, SpecEst the estimator alone.   *)
(***************************************************************************)
EXTENDS Integers, Sequences, FiniteSets, TLC

\* ---------------------------------------------------------------- bounds
MaxLen == 4          \* SpecEst: longest input string
MaxDocLines == 1     \* Spec: most text lines of the document
MaxElems == 1        \* Spec: most .cm-line elements the renderer holds
MaxMaxLines == 1     \* Spec: largest maxLinesToProcess configured
PassDocLines == 2    \* SpecPass: most text lines of the document
PassElems == 3       \* SpecPass: most .cm-line elements the renderer holds
PassMaxLines == 3    \* SpecPass: largest maxLinesToProcess configured
MaxOrphans == 1      \* most superseded debounce timers still pending
MaxFollowUps == 1    \* most 50 ms follow-up timers pending
MaxInFlight == 2     \* most activations of updateSyllableCounts under way
MaxRejected == 2     \* most calls counted as turned away during one pass
LineH == 20          \* height of one rendered line
ViewH == 60          \* height of the editor rectangle
ScrollFar == 1000    \* a scroll offset that moves every rendered line away
ScrollMid == 400     \* SpecRange: a scroll offset that moves the first lines away
MaxRangeElems == 16  \* SpecRange: most .cm-line elements the renderer holds
RangeMaxLines == 20  \* SpecRange: largest maxLinesToProcess configured
SeenDocLines == 2    \* SpecSeen: most text lines of the document
SeenElems == 2       \* SpecSeen: most .cm-line elements the renderer holds
SeenMaxLines == 2    \* SpecSeen: largest maxLinesToProcess configured

\* ------------------------------------------------------- program constants
VisTol == 100        \* getVisibleLineRange: tolerance around the viewport
PadLines == 10       \* getVisibleLineRange: buffer lines on each side

Min(a, b) == IF a < b THEN a ELSE b
Max(a, b) == IF a > b THEN a ELSE b

\* ------------------------------------------------------------- the estimator
AZ == {"a", "b", "c", "d", "e", "f", "g", "h", "i", "j", "k", "l", "m",
       "n", "o", "p", "q", "r", "s", "t", "u", "v", "w", "x", "y", "z"}

vowels == {"a", "e", "i", "o", "u", "y"}

\* String.prototype.toLowerCase on the characters the model uses
toLowerCase(c) ==
    CASE c = "A" -> "a"
      [] c = "E" -> "e"
      [] c = "L" -> "l"
      [] c = "B" -> "b"
      [] OTHER -> c

\* word.toLowerCase().replace(/[^a-z]/g, ' ')
replaceNonLetters(s) ==
    [i \in 1..Len(s) |-> IF toLowerCase(s[i]) \in AZ THEN toLowerCase(s[i]) ELSE " "]

RECURSIVE trimStart(_)
trimStart(s) ==
    IF s # <<>> /\ Head(s) = " " THEN trimStart(Tail(s)) ELSE s

RECURSIVE trimEnd(_)
trimEnd(s) ==
    IF s # <<>> /\ s[Len(s)] = " " THEN trimEnd(SubSeq(s, 1, Len(s) - 1)) ELSE s

trim(s) == trimEnd(trimStart(s))

\* word.split(/\s+/): cur is the token being read, s the rest of the string
RECURSIVE splitWs(_, _)
splitWs(s, cur) ==
    IF s = <<>> THEN <<cur>>
    ELSE IF Head(s) = " "
         THEN IF Len(s) > 1 /\ s[2] = " "
              THEN splitWs(Tail(s), cur)
              ELSE <<cur>> \o splitWs(Tail(s), <<>>)
         ELSE splitWs(Tail(s), Append(cur, Head(s)))

\* the vowel-group loop: i is the next index, isPrevVowel and syllables its locals
RECURSIVE vowelGroups(_, _, _, _)
vowelGroups(w, i, isPrevVowel, syllables) ==
    IF i > Len(w) THEN syllables
    ELSE LET isVowel == w[i] \in vowels
         IN vowelGroups(w, i + 1, isVowel,
                        IF isVowel /\ ~isPrevVowel THEN syllables + 1 ELSE syllables)

endsWith(w, suffix) ==
    /\ Len(w) >= Len(suffix)
    /\ SubSeq(w, Len(w) - Len(suffix) + 1, Len(w)) = suffix

\* mutant: the decrement is applied to a word in "le" too
silentEAlsoLe(w, syllables) ==
    IF endsWith(w, <<"e">>) /\ syllables > 1 THEN syllables - 1 ELSE syllables

\* the silent-e adjustment
silentE(w, syllables) ==
    IF endsWith(w, <<"e">>) /\ syllables > 1 /\ ~endsWith(w, <<"l", "e">>)
    THEN syllables - 1 ELSE syllables

\* mutant: the letter before "le" is not looked at
leEndingAnyThird(w, syllables) ==
    IF endsWith(w, <<"l", "e">>) /\ Len(w) > 2 THEN syllables + 1 ELSE syllables

\* the consonant+le adjustment
leEnding(w, syllables) ==
    IF endsWith(w, <<"l", "e">>) /\ Len(w) > 2 /\ w[Len(w) - 2] \notin vowels
    THEN syllables + 1 ELSE syllables

\* mutant: no floor
atLeastOneNoFloor(syllables) == syllables

\* "ensure at least one syllable per word"
atLeastOne(syllables) == IF syllables = 0 THEN 1 ELSE syllables

\* the body of the for-loop over words, for one word
wordSyllables(w) ==
    IF w = <<>> THEN 0
    ELSE IF Len(w) = 1 THEN 1
    ELSE atLeastOne(leEnding(w, silentE(w, vowelGroups(w, 1, FALSE, 0))))

RECURSIVE sumWords(_)
sumWords(words) ==
    IF words = <<>> THEN 0 ELSE wordSyllables(Head(words)) + sumWords(Tail(words))

countSyllables(line) ==
    LET word == trim(replaceNonLetters(line))
    IN IF word = <<>> THEN 0 ELSE sumWords(splitWs(word, <<>>))

\* ------------------------------------------------------------------ state
VARIABLES
    settings,         \* this.settings, with any further key the stored data holds
    loaded,           \* the plugin is loaded (onload has run, onunload has not)
    activeView,       \* getActiveViewOfType(MarkdownView) is not null
    ctx,              \* what the view offers: "ok", "noEditor", "noElement"
    content,          \* editor.getValue()
    elems,            \* number of .cm-line elements in the editor element
    scrollTop,        \* scroll offset of the editor
    observing,        \* the MutationObserver is attached to the editor container
    syllableMarkers,  \* this.syllableMarkers
    dom,              \* the markers attached to the editor element
    isProcessing,     \* this.isProcessing
    pendingUpdate,    \* this.pendingUpdate
    inFlight,         \* activations of updateSyllableCounts past the guard, not ended
    debPending,       \* the timer of this.updateSyllableCountsDebounced is pending
    orphans,          \* pending timers of debounced functions since replaced
    scrollPending,    \* the timer of the debounced scroll handler is pending
    mutPending,       \* the timer of the debounced observer callback is pending
    followUps,        \* pending 50 ms timers set by the finally block
    estIn,            \* estimator specification: the input string
    estOut,           \* estimator specification: the result, -1 before the call
    rejected,         \* history: calls the guard turned away since the last pass began
    stale,            \* history: a trigger was accepted and no pass has begun since
    lost,             \* history: -1, or, from the moment the active-leaf-change
                      \* handler cleared for a leaf that is no Markdown view until a
                      \* Markdown leaf becomes active, 1 if it removed displayed
                      \* markers and 0 if there were none
    range,            \* range specification: the startLine and endLine determined
    seen              \* history: what the call that last ran past the early returns
                      \* read when it began (the limit, the text lines, the number
                      \* of line elements) and the range it determined

envVars == <<activeView, ctx, content, elems, scrollTop>>
timerVars == <<debPending, orphans, scrollPending, mutPending, followUps>>
passVars == <<syllableMarkers, dom, isProcessing, pendingUpdate, inFlight>>
estVars == <<estIn, estOut>>
histVars == <<rejected, stale>>
auxVars == <<lost, range, seen>>
vars == <<settings, loaded, observing, envVars, timerVars, passVars, estVars, histVars,
          auxVars>>

\* ------------------------------------------------------------ environment
NL == "\n"

\* the texts a line of the document may hold
LineTexts == {<<>>, <<"a">>}

RECURSIVE joinLines(_)
joinLines(ls) ==
    IF Len(ls) = 1 THEN ls[1] ELSE ls[1] \o <<NL>> \o joinLines(Tail(ls))

\* the documents of at most maxN lines
Contents(maxN) ==
    {joinLines(ls) : ls \in UNION {[1..n -> LineTexts] : n \in 1..maxN}}

\* content.split('\n')
RECURSIVE split(_, _)
split(s, cur) ==
    IF s = <<>> THEN <<cur>>
    ELSE IF Head(s) = NL THEN <<cur>> \o split(Tail(s), <<>>)
         ELSE split(Tail(s), Append(cur, Head(s)))

ScrollPositions == {0, ScrollFar}

\* what a view offers: no editor, no editor element, or an editor element with
\* n line elements (a view without an editor element has no line elements)
Views(maxN) ==
    {<<"noEditor", 0>>, <<"noElement", 0>>} \cup {<<"ok", n>> : n \in 0..maxN}

SettingsSpace(maxM) ==
    [maxLinesToProcess : 1..maxM,
     onlyVisibleRange : BOOLEAN,
     showZeroSyllables : BOOLEAN,
     verbosity : {"verbose", "terse"}]

\* lineElements[i].getBoundingClientRect(), i counted from 0
lineRect(i, scroll) ==
    [top |-> i * LineH - scroll, bottom |-> (i + 1) * LineH - scroll]

\* editorElement.getBoundingClientRect()
editorRect == [top |-> 0, bottom |-> ViewH]

\* lineElements[i].offsetTop
offsetTop(i) == i * LineH

\* ------------------------------------------------------ the synchronizer
NoRange == [start |-> -1, end |-> -1]

\* seen before any call has run past the early returns
NotSeen == [max |-> 0, lines |-> <<>>, n |-> 0, r |-> NoRange]

\* the "find visible lines" loop: i is the next element, startLine and endLine its locals
RECURSIVE visibleScan(_, _, _, _, _)
visibleScan(i, n, scroll, startLine, endLine) ==
    IF i >= n THEN [start |-> startLine, end |-> endLine]
    ELSE LET r == lineRect(i, scroll)
             isVisible == /\ r.bottom >= editorRect.top - VisTol
                          /\ r.top <= editorRect.bottom + VisTol
         IN IF isVisible
            THEN visibleScan(i + 1, n, scroll,
                             IF startLine = -1 THEN i ELSE startLine, i)
            ELSE IF startLine # -1 /\ r.top > editorRect.bottom
                 THEN [start |-> startLine, end |-> endLine]
                 ELSE visibleScan(i + 1, n, scroll, startLine, endLine)

\* NoRange stands for null
getVisibleLineRange(n, scroll) ==
    IF n = 0 THEN NoRange
    ELSE LET found == visibleScan(0, n, scroll, -1, -1)
         IN IF found.start = -1 THEN NoRange
            ELSE [start |-> Max(0, found.start - PadLines),
                  end |-> Min(n - 1, found.end + PadLines)]

\* mutant: a range longer than maxLinesToProcess is left as it is
capRangeNone(r, cfg) == r

\* "ensure we don't process too many lines"
capRange(r, cfg) ==
    IF r.end - r.start + 1 > cfg.maxLinesToProcess
    THEN [start |-> r.start, end |-> r.start + cfg.maxLinesToProcess - 1]
    ELSE r

\* mutant: maxLinesToProcess is not applied
defaultRangeNoCap(n, cfg) == [start |-> 0, end |-> n - 1]

\* let startLine = 0; let endLine = Math.min(lineElements.length - 1, max - 1)
defaultRange(n, cfg) ==
    [start |-> 0, end |-> Min(n - 1, cfg.maxLinesToProcess - 1)]

\* mutant: without a visible range no line is processed
lineRangeNoFallback(n, scroll, cfg) ==
    IF ~cfg.onlyVisibleRange THEN defaultRange(n, cfg)
    ELSE IF getVisibleLineRange(n, scroll) # NoRange
         THEN capRange(getVisibleLineRange(n, scroll), cfg)
         ELSE [start |-> 0, end |-> -1]

\* "determine which lines to process": the startLine and endLine the loop runs over
lineRange(n, scroll, cfg) ==
    IF cfg.onlyVisibleRange /\ getVisibleLineRange(n, scroll) # NoRange
    THEN capRange(getVisibleLineRange(n, scroll), cfg)
    ELSE defaultRange(n, cfg)

\* marker.textContent
markerText(syllableCount) ==
    <<syllableCount, IF syllableCount = 1 THEN "syllable" ELSE "syllables">>

\* mutant: every line gets a marker
showsMarkerAlways(syllableCount, cfg) == TRUE

\* "only add markers for lines with syllables > 0 or if showZeroSyllables is enabled"
showsMarker(syllableCount, cfg) ==
    syllableCount > 0 \/ cfg.showZeroSyllables

\* mutant: the marker is positioned at the offset of the element that follows
newMarkerAtNext(index, syllableCount) ==
    [line |-> index,
     count |-> syllableCount,
     text |-> markerText(syllableCount),
     top |-> offsetTop(index + 1)]

\* the marker built for line index; the field line records the index it was built for
newMarker(index, syllableCount) ==
    [line |-> index,
     count |-> syllableCount,
     text |-> markerText(syllableCount),
     top |-> offsetTop(index)]

\* "process each line in the determined range", from index to endLine
RECURSIVE processLines(_, _, _, _, _)
processLines(index, endLine, lines, n, cfg) ==
    IF index > endLine THEN <<>>
    ELSE IF index >= Len(lines) \/ index >= n
         THEN processLines(index + 1, endLine, lines, n, cfg)
         ELSE LET syllableCount == countSyllables(lines[index + 1])
              IN (IF showsMarker(syllableCount, cfg)
                  THEN <<newMarker(index, syllableCount)>>
                  ELSE <<>>)
                 \o processLines(index + 1, endLine, lines, n, cfg)

\* the view offers an editor, an editor element and at least one line element
available(c, n) == c = "ok" /\ n > 0

\* the markers one pass builds from what it reads
passMarkers(c, text, n, scroll, cfg) ==
    IF ~available(c, n) THEN <<>>
    ELSE LET r == lineRange(n, scroll, cfg)
         IN processLines(r.start, r.end, split(text, <<>>), n, cfg)

\* mutant: each marker is appended to the editor element as soon as it is built
displayedUnbatched(made, k, completed) == SubSeq(made, 1, k)

\* the markers a pass adds to the editor element when it has built the first k
\* of made: they are collected in a fragment, which is appended in one operation
\* after the loop, if the pass got there
displayed(made, k, completed) == IF completed THEN made ELSE <<>>

\* a childList mutation inside the observed container reaches the observer,
\* whose callback is debounced
observed(changed) == observing /\ changed

\* this.updateSyllableCountsDebounced(view)
callDebounced == debPending' = TRUE

\* a handler accepts a trigger: it calls the debounced function
trigger == callDebounced /\ stale' = TRUE

\* a handler lets a trigger pass without a call
noTrigger == UNCHANGED <<debPending, stale>>

\* mutant: the markers are kept
afterClearKeeps(markers) == markers

\* clearSyllableMarkers: what is left of a list of markers
afterClear(markers) == <<>>

clearSyllableMarkers ==
    /\ syllableMarkers' = afterClear(syllableMarkers)
    /\ dom' = afterClear(dom)

\* mutant: the guard never turns a call away
rejectsNever(processing) == FALSE

\* the guard of updateSyllableCounts: the call returns at once
rejects(processing) == processing

\* updateSyllableCounts up to the end of its clearing step: the guard, the two
\* flags, clearSyllableMarkers
updateSyllableCounts ==
    IF rejects(isProcessing)
    THEN /\ pendingUpdate' = TRUE
         /\ rejected < MaxRejected
         /\ rejected' = rejected + 1
         /\ UNCHANGED <<syllableMarkers, dom, isProcessing, inFlight, mutPending, stale>>
    ELSE /\ isProcessing' = TRUE
         /\ pendingUpdate' = FALSE
         /\ clearSyllableMarkers
         /\ inFlight' = inFlight + 1
         /\ mutPending' = (mutPending \/ observed(dom # <<>>))
         /\ rejected' = 0
         /\ stale' = FALSE

\* the timer of the current debounced function fires
DebounceFire ==
    /\ debPending
    /\ inFlight < MaxInFlight
    /\ debPending' = FALSE
    /\ updateSyllableCounts
    /\ UNCHANGED <<settings, loaded, observing, envVars, orphans, scrollPending,
                   followUps, estVars, auxVars>>

\* the timer of a replaced debounced function fires
OrphanFire ==
    /\ orphans > 0
    /\ inFlight < MaxInFlight
    /\ orphans' = orphans - 1
    /\ updateSyllableCounts
    /\ UNCHANGED <<settings, loaded, observing, envVars, debPending, scrollPending,
                   followUps, estVars, auxVars>>

\* mutant: one follow-up timer for each call turned away
afterFinallyPerCall(pending, timers) == timers + rejected

\* mutant: no follow-up timer
afterFinallyNone(pending, timers) == timers

\* the finally block: the follow-up timers pending afterwards
afterFinally(pending, timers) == IF pending THEN timers + 1 ELSE timers

\* how a pass ends that no exception interrupts: "aborted" by one of the early
\* returns, "done" after the append of the fragment
outcomeOf(c, n) == IF available(c, n) THEN "done" ELSE "aborted"

\* mutant: the flag is released by the early returns only, not by the finally block
flagAfterNoFinally(outcome) == outcome # "aborted"

\* this.isProcessing when a pass has ended as "aborted", "done" or "failed" (an
\* exception reached the catch block)
flagAfter(outcome) == FALSE

\* the rest of updateSyllableCounts: the availability checks with their early
\* returns, the range, the loop, the append of the fragment, and the finally block
PassEnd ==
    /\ inFlight > 0
    /\ pendingUpdate => followUps < MaxFollowUps
    /\ LET made == passMarkers(ctx, content, elems, scrollTop, settings)
       IN /\ syllableMarkers' = syllableMarkers \o made
          /\ dom' = dom \o displayed(made, Len(made), TRUE)
          /\ mutPending' = (mutPending \/ observed(made # <<>>))
    /\ isProcessing' = flagAfter(outcomeOf(ctx, elems))
    /\ followUps' = afterFinally(pendingUpdate, followUps)
    /\ inFlight' = inFlight - 1
    /\ UNCHANGED <<settings, loaded, observing, envVars, pendingUpdate, debPending,
                   orphans, scrollPending, estVars, histVars, auxVars>>

\* the rest of updateSyllableCounts when, past the early returns, a call inside
\* the try block throws after k markers were built and stored (all of them when
\* it is the append that throws): the catch block, the finally block
PassFail(k) ==
    /\ inFlight > 0
    /\ available(ctx, elems)
    /\ pendingUpdate => followUps < MaxFollowUps
    /\ LET made == passMarkers(ctx, content, elems, scrollTop, settings)
           shown == displayed(made, k, FALSE)
       IN /\ k <= Len(made)
          /\ syllableMarkers' = syllableMarkers \o SubSeq(made, 1, k)
          /\ dom' = dom \o shown
          /\ mutPending' = (mutPending \/ observed(shown # <<>>))
    /\ isProcessing' = flagAfter("failed")
    /\ followUps' = afterFinally(pendingUpdate, followUps)
    /\ inFlight' = inFlight - 1
    /\ UNCHANGED <<settings, loaded, observing, envVars, pendingUpdate, debPending,
                   orphans, scrollPending, estVars, histVars, auxVars>>

\* the 50 ms timer of the finally block fires
FollowUpFire ==
    /\ followUps > 0
    /\ followUps' = followUps - 1
    /\ IF activeView THEN callDebounced ELSE UNCHANGED debPending
    /\ UNCHANGED <<settings, loaded, observing, envVars, passVars, orphans,
                   scrollPending, mutPending, estVars, histVars, auxVars>>

\* the user edits the document; the 'editor-change' handler
EditorChange(text, n) ==
    /\ activeView /\ ctx = "ok"
    /\ content' = text
    /\ elems' = n
    /\ IF loaded THEN trigger ELSE noTrigger
    /\ mutPending' = (mutPending \/ observed(n # elems))
    /\ UNCHANGED <<settings, loaded, observing, activeView, ctx, scrollTop, passVars,
                   orphans, scrollPending, followUps, estVars, rejected, auxVars>>

\* mutant: the handler never clears
clearsOnLeafNever(isMarkdown) == FALSE

\* the 'active-leaf-change' handler takes its else branch
clearsOnLeaf(isMarkdown) == ~isMarkdown

\* the active leaf changes; the 'active-leaf-change' handler
ActiveLeafChange(isMarkdown, v) ==
    /\ activeView' = isMarkdown
    /\ ctx' = v[1]
    /\ elems' = v[2]
    /\ IF ~loaded THEN noTrigger /\ UNCHANGED <<syllableMarkers, dom, lost>>
       ELSE IF clearsOnLeaf(isMarkdown)
            THEN clearSyllableMarkers /\ noTrigger /\ lost' = (IF dom # <<>> THEN 1 ELSE 0)
            ELSE trigger /\ UNCHANGED <<syllableMarkers, dom>> /\ lost' = -1
    /\ mutPending' = (mutPending \/ (loaded /\ ~isMarkdown /\ observed(dom # <<>>)))
    /\ UNCHANGED <<settings, loaded, observing, content, scrollTop,
                   isProcessing, pendingUpdate, inFlight, orphans, scrollPending,
                   followUps, estVars, rejected, range, seen>>

\* the editor scrolls; the debounced 'scroll' handler is called
Scroll(pos, n) ==
    /\ activeView /\ ctx = "ok"
    /\ pos # scrollTop
    /\ scrollTop' = pos
    /\ elems' = n
    /\ scrollPending' = (scrollPending \/ loaded)
    /\ mutPending' = (mutPending \/ observed(n # elems))
    /\ UNCHANGED <<settings, loaded, observing, activeView, ctx, content, passVars,
                   debPending, orphans, followUps, estVars, histVars, auxVars>>

\* the timer of the debounced scroll handler fires
ScrollFire ==
    /\ scrollPending
    /\ scrollPending' = FALSE
    /\ IF activeView /\ settings.onlyVisibleRange THEN trigger ELSE noTrigger
    /\ UNCHANGED <<settings, loaded, observing, envVars, passVars, orphans,
                   mutPending, followUps, estVars, rejected, auxVars>>

\* the timer of the debounced MutationObserver callback fires
MutationFire ==
    /\ mutPending
    /\ mutPending' = FALSE
    /\ IF activeView /\ ctx # "noElement" THEN trigger ELSE noTrigger
    /\ UNCHANGED <<settings, loaded, observing, envVars, passVars, orphans,
                   scrollPending, followUps, estVars, rejected, auxVars>>

\* a control of the settings tab changes one setting and calls saveSettings
SaveSettings(cfg) ==
    /\ loaded
    /\ cfg # settings
    /\ cfg.verbosity = settings.verbosity
    /\ debPending => orphans < MaxOrphans
    /\ settings' = cfg
    /\ orphans' = IF debPending THEN orphans + 1 ELSE orphans
    /\ debPending' = activeView
    /\ stale' = (stale \/ activeView)
    /\ UNCHANGED <<loaded, observing, envVars, passVars, scrollPending, mutPending,
                   followUps, estVars, rejected, auxVars>>

\* onunload
onunload ==
    /\ loaded
    /\ loaded' = FALSE
    /\ clearSyllableMarkers
    /\ observing' = FALSE
    /\ UNCHANGED <<settings, envVars, isProcessing, pendingUpdate, inFlight,
                   timerVars, estVars, histVars, auxVars>>

\* the state onload leaves
Init ==
    /\ settings \in SettingsSpace(MaxMaxLines)
    /\ settings.verbosity = "verbose"
    /\ loaded = TRUE
    /\ activeView \in BOOLEAN
    /\ \E v \in Views(MaxElems) : ctx = v[1] /\ elems = v[2]
    /\ content \in Contents(MaxDocLines)
    /\ scrollTop \in ScrollPositions
    /\ observing = activeView
    /\ syllableMarkers = <<>>
    /\ dom = <<>>
    /\ isProcessing = FALSE
    /\ pendingUpdate = FALSE
    /\ inFlight = 0
    /\ debPending = activeView
    /\ orphans = 0
    /\ scrollPending = FALSE
    /\ mutPending = FALSE
    /\ followUps = 0
    /\ estIn = <<>>
    /\ estOut = -1
    /\ rejected = 0
    /\ stale = activeView
    /\ lost = -1
    /\ range = NoRange
    /\ seen = NotSeen

Next ==
    \/ DebounceFire
    \/ OrphanFire
    \/ PassEnd
    \/ \E k \in 0..MaxElems : PassFail(k)
    \/ FollowUpFire
    \/ \E text \in Contents(MaxDocLines), n \in 0..MaxElems : EditorChange(text, n)
    \/ \E isMarkdown \in BOOLEAN, v \in Views(MaxElems) : ActiveLeafChange(isMarkdown, v)
    \/ \E pos \in ScrollPositions, n \in 0..MaxElems : Scroll(pos, n)
    \/ ScrollFire
    \/ MutationFire
    \/ \E cfg \in SettingsSpace(MaxMaxLines) : SaveSettings(cfg)
    \/ onunload

Spec == Init /\ [][Next]_vars

\* ----------------------------------------------------------------------
\* SpecPass: updateSyllableCounts run as one uninterrupted call on every input.
\* Scheduling is left out: a pass may run at any moment, and between passes the
\* configuration, the document, the view or the scroll offset may change.

\* one whole call of updateSyllableCounts, entered with isProcessing false, in
\* which k markers are built and stored: it is completed, or a call inside the
\* try block, past the early returns, throws
theCall(k, completed) ==
    /\ ~rejects(isProcessing)
    /\ completed \/ available(ctx, elems)
    /\ LET made == passMarkers(ctx, content, elems, scrollTop, settings)
           shown == displayed(made, k, completed)
       IN /\ IF completed THEN k = Len(made) ELSE k <= Len(made)
          /\ syllableMarkers' = afterClear(syllableMarkers) \o SubSeq(made, 1, k)
          /\ dom' = afterClear(dom) \o shown
          /\ mutPending' = (mutPending \/ observed(dom # <<>> \/ shown # <<>>))
    /\ isProcessing' = flagAfter(IF completed THEN outcomeOf(ctx, elems) ELSE "failed")
    /\ pendingUpdate' = FALSE
    /\ followUps' = afterFinally(FALSE, followUps)
    /\ rejected' = 0
    /\ UNCHANGED <<settings, loaded, observing, envVars, inFlight, scrollPending,
                   estVars, lost, range>>

wholeCall(k, completed) == theCall(k, completed) /\ UNCHANGED seen

\* a completed call
RunPass ==
    /\ wholeCall(Len(passMarkers(ctx, content, elems, scrollTop, settings)), TRUE)
    /\ stale' = FALSE
    /\ UNCHANGED <<debPending, orphans>>

\* a call that throws after k markers were built and stored; no pass has then
\* completed on the present input
RunPassFail(k) ==
    /\ wholeCall(k, FALSE)
    /\ stale' = TRUE
    /\ UNCHANGED <<debPending, orphans>>

SetSettings(cfg) ==
    /\ cfg # settings
    /\ cfg.verbosity = settings.verbosity
    /\ settings' = cfg
    /\ stale' = TRUE
    /\ UNCHANGED <<loaded, observing, envVars, timerVars, passVars, estVars, rejected,
                   auxVars>>

SetContent(text) ==
    /\ text # content
    /\ content' = text
    /\ stale' = TRUE
    /\ UNCHANGED <<settings, loaded, observing, activeView, ctx, elems, scrollTop,
                   timerVars, passVars, estVars, rejected, auxVars>>

SetView(v) ==
    /\ v # <<ctx, elems>>
    /\ ctx' = v[1]
    /\ elems' = v[2]
    /\ stale' = TRUE
    /\ UNCHANGED <<settings, loaded, observing, activeView, content, scrollTop,
                   timerVars, passVars, estVars, rejected, auxVars>>

SetScroll(pos) ==
    /\ pos # scrollTop
    /\ scrollTop' = pos
    /\ stale' = TRUE
    /\ UNCHANGED <<settings, loaded, observing, activeView, ctx, content, elems,
                   timerVars, passVars, estVars, rejected, auxVars>>

InitPass ==
    /\ settings \in SettingsSpace(PassMaxLines)
    /\ loaded = TRUE
    /\ activeView = TRUE
    /\ \E v \in Views(PassElems) : ctx = v[1] /\ elems = v[2]
    /\ content \in Contents(PassDocLines)
    /\ scrollTop \in ScrollPositions
    /\ observing = FALSE
    /\ syllableMarkers = <<>>
    /\ dom = <<>>
    /\ isProcessing = FALSE
    /\ pendingUpdate = FALSE
    /\ inFlight = 0
    /\ debPending = FALSE
    /\ orphans = 0
    /\ scrollPending = FALSE
    /\ mutPending = FALSE
    /\ followUps = 0
    /\ estIn = <<>>
    /\ estOut = -1
    /\ rejected = 0
    /\ stale = TRUE
    /\ lost = -1
    /\ range = NoRange
    /\ seen = NotSeen

NextPass ==
    \/ RunPass
    \/ \E cfg \in SettingsSpace(PassMaxLines) : SetSettings(cfg)
    \/ \E text \in Contents(PassDocLines) : SetContent(text)
    \/ \E v \in Views(PassElems) : SetView(v)
    \/ \E pos \in ScrollPositions : SetScroll(pos)

SpecPass == InitPass /\ [][NextPass]_vars

\* SpecPassFail: SpecPass, and a call may throw
NextPassFail ==
    \/ NextPass
    \/ \E k \in 0..PassElems : RunPassFail(k)

SpecPassFail == InitPass /\ [][NextPassFail]_vars

\* ----------------------------------------------------------------------
\* SpecSeen: SpecPassFail, on inputs within its own bounds, with what each call
\* read kept in seen.

\* what a call that runs past the early returns reads when it begins, and the
\* startLine and endLine it determines from it
reads ==
    [max |-> settings.maxLinesToProcess,
     lines |-> split(content, <<>>),
     n |-> elems,
     r |-> lineRange(elems, scrollTop, settings)]

\* one whole call, completed or throwing after k markers were built and stored;
\* a call that returns early has read neither the text nor a range
CallSeen(k, completed) ==
    /\ theCall(k, completed)
    /\ seen' = IF available(ctx, elems) THEN reads ELSE NotSeen
    /\ stale' = ~completed
    /\ UNCHANGED <<debPending, orphans>>

InitSeen ==
    /\ InitPass
    /\ settings \in SettingsSpace(SeenMaxLines)
    /\ settings.verbosity = "verbose"
    /\ <<ctx, elems>> \in Views(SeenElems)
    /\ content \in Contents(SeenDocLines)

NextSeen ==
    \/ \E k \in 0..SeenElems, completed \in BOOLEAN : CallSeen(k, completed)
    \/ \E cfg \in SettingsSpace(SeenMaxLines) : SetSettings(cfg)
    \/ \E text \in Contents(SeenDocLines) : SetContent(text)
    \/ \E v \in Views(SeenElems) : SetView(v)
    \/ \E pos \in ScrollPositions : SetScroll(pos)

SpecSeen == InitSeen /\ [][NextSeen]_vars

\* ----------------------------------------------------------------------
\* SpecEst: countSyllables applied to every string of at most MaxLen characters
\* and to some longer words.

EstChars == {"a", "e", "y", "l", "b", "A", " ", "1"}

EstWords ==
    {<<"a", "p", "p", "l", "e">>, <<"b", "a", "n", "a", "n", "a">>,
     <<"t", "a", "b", "l", "e">>, <<"c", "a", "t">>, <<"t", "h", "e">>}

EstInputs == UNION {[1..n -> EstChars] : n \in 0..MaxLen} \cup EstWords

\* this.countSyllables(line)
Estimate ==
    /\ estOut = -1
    /\ estOut' = countSyllables(estIn)
    /\ UNCHANGED <<settings, loaded, observing, envVars, timerVars, passVars, estIn,
                   histVars, auxVars>>

InitEst ==
    /\ settings = [maxLinesToProcess |-> 1, onlyVisibleRange |-> TRUE,
                   showZeroSyllables |-> FALSE, verbosity |-> "verbose"]
    /\ loaded = TRUE
    /\ activeView = FALSE
    /\ ctx = "ok"
    /\ elems = 0
    /\ content = <<>>
    /\ scrollTop = 0
    /\ observing = FALSE
    /\ syllableMarkers = <<>>
    /\ dom = <<>>
    /\ isProcessing = FALSE
    /\ pendingUpdate = FALSE
    /\ inFlight = 0
    /\ debPending = FALSE
    /\ orphans = 0
    /\ scrollPending = FALSE
    /\ mutPending = FALSE
    /\ followUps = 0
    /\ estIn \in EstInputs
    /\ estOut = -1
    /\ rejected = 0
    /\ stale = FALSE
    /\ lost = -1
    /\ range = NoRange
    /\ seen = NotSeen

NextEst == Estimate

SpecEst == InitEst /\ [][NextEst]_vars

\* ----------------------------------------------------------------------
\* SpecAtomic: the plugin with updateSyllableCounts run as the present body runs,
\* from its first to its last statement without another callback in between.
\* No call then finds isProcessing true, so that pendingUpdate stays false and
\* the 50 ms timer is never set.

\* the timer of the current debounced function fires and the call runs
DebounceRun(k, completed) ==
    /\ debPending
    /\ debPending' = FALSE
    /\ wholeCall(k, completed)
    /\ stale' = FALSE
    /\ UNCHANGED orphans

\* the timer of a replaced debounced function fires and the call runs
OrphanRun(k, completed) ==
    /\ orphans > 0
    /\ orphans' = orphans - 1
    /\ wholeCall(k, completed)
    /\ stale' = FALSE
    /\ UNCHANGED debPending

NextAtomic ==
    \/ \E k \in 0..MaxElems, completed \in BOOLEAN : DebounceRun(k, completed)
    \/ \E k \in 0..MaxElems, completed \in BOOLEAN : OrphanRun(k, completed)
    \/ \E text \in Contents(MaxDocLines), n \in 0..MaxElems : EditorChange(text, n)
    \/ \E isMarkdown \in BOOLEAN, v \in Views(MaxElems) : ActiveLeafChange(isMarkdown, v)
    \/ \E pos \in ScrollPositions, n \in 0..MaxElems : Scroll(pos, n)
    \/ ScrollFire
    \/ MutationFire
    \/ \E cfg \in SettingsSpace(MaxMaxLines) : SaveSettings(cfg)
    \/ onunload

SpecAtomic == Init /\ [][NextAtomic]_vars

\* ----------------------------------------------------------------------
\* SpecRange: the range determination of updateSyllableCounts applied to every
\* number of line elements, scroll offset and configuration.

RangeScrolls == {0, ScrollMid, ScrollFar}

\* "determine which lines to process", past the early returns
DetermineRange ==
    /\ range = NoRange
    /\ seen = NotSeen
    /\ available(ctx, elems)
    /\ range' = lineRange(elems, scrollTop, settings)
    /\ UNCHANGED <<settings, loaded, observing, envVars, timerVars, passVars, estVars,
                   histVars, lost, seen>>

InitRange ==
    /\ settings \in SettingsSpace(RangeMaxLines)
    /\ settings.verbosity = "verbose"
    /\ ~settings.showZeroSyllables
    /\ loaded = TRUE
    /\ activeView = TRUE
    /\ ctx = "ok"
    /\ elems \in 1..MaxRangeElems
    /\ content = <<>>
    /\ scrollTop \in RangeScrolls
    /\ observing = FALSE
    /\ syllableMarkers = <<>>
    /\ dom = <<>>
    /\ isProcessing = FALSE
    /\ pendingUpdate = FALSE
    /\ inFlight = 0
    /\ debPending = FALSE
    /\ orphans = 0
    /\ scrollPending = FALSE
    /\ mutPending = FALSE
    /\ followUps = 0
    /\ estIn = <<>>
    /\ estOut = -1
    /\ rejected = 0
    /\ stale = FALSE
    /\ lost = -1
    /\ range = NoRange
    /\ seen = NotSeen

NextRange == DetermineRange

SpecRange == InitRange /\ [][NextRange]_vars

\* ----------------------------------------------------------------------
\* The timers fire and a pass that has begun ends
FairSpec ==
    /\ Spec
    /\ WF_vars(DebounceFire)
    /\ WF_vars(OrphanFire)
    /\ WF_vars(PassEnd)
    /\ WF_vars(FollowUpFire)
    /\ WF_vars(ScrollFire)
    /\ WF_vars(MutationFire)

\* some timer is pending or a pass is under way
scheduled ==
    debPending \/ orphans > 0 \/ followUps > 0 \/ scrollPending \/ mutPending
        \/ inFlight > 0

\* what a pass over the present document, view and configuration shows
shownNow == passMarkers(ctx, content, elems, scrollTop, settings)

\* a call of the debounced function is on its way to beginning a pass: its timer
\* is pending, or the call was turned away by a pass that will set the follow-up
\* timer when it ends, or that timer is pending
onItsWay ==
    debPending \/ orphans > 0 \/ followUps > 0 \/ (inFlight > 0 /\ pendingUpdate)

\* ---------------------------------------------------------------- claims

C2_MutualExclusion ==
    /\ [](inFlight <= 1 /\ (isProcessing <=> inFlight = 1))
    /\ [][((DebounceFire \/ OrphanFire) /\ isProcessing) =>
            /\ pendingUpdate'
            /\ UNCHANGED <<syllableMarkers, dom, isProcessing, inFlight>>]_vars

\* C2 witness: a call was turned away while a pass is under way
C2_Witness ==
    isProcessing /\ inFlight = 1 /\ pendingUpdate /\ rejected >= 1

\* C3 (as amended): while the plugin is loaded and a Markdown view is active,
\* every trigger a handler accepted and no pass has yet begun after is on its
\* way to a pass (a timer that leads to one is pending, or a pass that will set
\* the follow-up timer is under way); and the markers a pass shows are those
\* computed from the document, view and configuration it reads.
C3_TriggerServed ==
    /\ []((stale /\ activeView /\ loaded) => onItsWay)
    /\ [][PassEnd => (syllableMarkers' = shownNow /\ dom' = shownNow)]_vars

\* C3 witness: a trigger arrived during a pass, the pass has ended, and the
\* follow-up timer carries the trigger
C3_Witness ==
    stale /\ activeView /\ loaded /\ inFlight = 0 /\ followUps > 0 /\ ~debPending
        /\ orphans = 0

\* C3 (as claimed): every trigger, a scroll included, is followed by a pass:
\* when the scroll handler has run with a view active, a pass is scheduled
C3_EveryTriggerServed ==
    [][(ScrollFire /\ activeView /\ loaded) => scheduled']_vars

\* C4 (as claimed): pending scheduled work is cancelled by onunload: once the
\* plugin is unloaded no pass begins
C4_NothingAfterUnload ==
    [][~loaded => inFlight' <= inFlight]_vars

\* C5 (as claimed): at most one scheduled pass is pending at any time, also
\* when saveSettings has replaced the debounced function
C5_OnePendingPass ==
    (IF debPending THEN 1 ELSE 0) + orphans <= 1

\* the lines of the present document
textLines == split(content, <<>>)

\* C6: a pass run when a pass has already run and nothing has changed since (no
\* change of text, view, scroll offset or configuration) leaves the markers held
\* and the markers in the document exactly as they were.
C6_Idempotent ==
    [][(RunPass /\ ~stale) => UNCHANGED <<syllableMarkers, dom>>]_vars

\* C6 witness: a pass has run on the present input and shows two markers
C6_Witness ==
    ~stale /\ Len(syllableMarkers) = 2 /\ dom = syllableMarkers

\* C7 (as claimed): with onlyVisibleRange off, the range a pass runs over is
\* [0, min(N, maxLinesToProcess) - 1] for the N text lines of the document
C7_RangeByTextLines ==
    (~stale /\ available(ctx, elems) /\ ~settings.onlyVisibleRange) =>
        lineRange(elems, scrollTop, settings) =
            [start |-> 0, end |-> Min(Len(textLines), settings.maxLinesToProcess) - 1]

\* C7 (as amended): with onlyVisibleRange off, the range a pass runs over is
\* [0, min(E, maxLinesToProcess) - 1] for the E line elements of the renderer,
\* and the lines the pass estimates are those of index below
\* min(N, E, maxLinesToProcess): with showZeroSyllables on, exactly these have a
\* marker.
C7_RangeByElements ==
    (~stale /\ available(ctx, elems) /\ ~settings.onlyVisibleRange) =>
        /\ lineRange(elems, scrollTop, settings) =
               [start |-> 0, end |-> Min(elems, settings.maxLinesToProcess) - 1]
        /\ settings.showZeroSyllables =>
               {dom[k].line : k \in 1..Len(dom)} =
                   0..(Min(Min(Len(textLines), elems), settings.maxLinesToProcess) - 1)

\* C7 witness: a pass has run with onlyVisibleRange off on a document with more
\* text lines than the renderer has line elements, and fewer line elements than
\* maxLinesToProcess
C7_Witness ==
    /\ ~stale /\ available(ctx, elems) /\ ~settings.onlyVisibleRange
    /\ settings.showZeroSyllables
    /\ elems < Len(textLines) /\ elems < settings.maxLinesToProcess
    /\ Len(dom) = elems

\* C8: after a pass on the present input, every text line in the range the pass
\* ran over has a marker with its count if its count is positive; a line of
\* count 0 has one exactly if showZeroSyllables is on; and with
\* showZeroSyllables off no marker has count 0.
C8_DisplayFilter ==
    (~stale /\ available(ctx, elems)) =>
        LET r == lineRange(elems, scrollTop, settings)
            annotated(i) ==
                \E k \in 1..Len(dom) :
                    dom[k].line = i /\ dom[k].count = countSyllables(textLines[i + 1])
        IN /\ \A i \in r.start..r.end :
                i < Len(textLines) =>
                    IF countSyllables(textLines[i + 1]) > 0
                    THEN annotated(i)
                    ELSE (settings.showZeroSyllables <=> annotated(i))
           /\ ~settings.showZeroSyllables => \A k \in 1..Len(dom) : dom[k].count > 0

\* C8 witness: with showZeroSyllables on, a pass has given a marker to a line of
\* count 0 and to a line of positive count
C8_Witness ==
    /\ ~stale /\ settings.showZeroSyllables
    /\ \E k \in 1..Len(dom) : dom[k].count = 0
    /\ \E k \in 1..Len(dom) : dom[k].count > 0

\* C9 (as claimed): a marker for count c reads "c syllable(s)" when the
\* configured verbosity is verbose and just "c" when it is terse
C9_VerbosityRespected ==
    ~stale =>
        \A k \in 1..Len(dom) :
            dom[k].text =
                IF settings.verbosity = "terse" THEN <<dom[k].count>>
                ELSE <<dom[k].count,
                       IF dom[k].count = 1 THEN "syllable" ELSE "syllables">>

\* the letters of the estimator's inputs, before lowercasing
isLetter(c) == c \in AZ \cup {"A", "E", "L", "B"}

\* the alphabetic tokens of s: its maximal runs of letters
letterRuns(s) ==
    Cardinality({i \in 1..Len(s) : isLetter(s[i]) /\ (i = 1 \/ ~isLetter(s[i - 1]))})

\* C10: the estimate is never negative, it is 0 for a string without letters
\* (the empty string included), and it is at least the number of alphabetic
\* tokens of the string.
C10_EstimatorBounds ==
    estOut # -1 =>
        /\ estOut >= 0
        /\ letterRuns(estIn) = 0 => estOut = 0
        /\ estOut >= letterRuns(estIn)

\* C10 witness: a string of two tokens without a vowel has been estimated as 2
C10_Witness ==
    /\ estOut = 2
    /\ letterRuns(estIn) = 2
    /\ \A i \in 1..Len(estIn) : toLowerCase(estIn[i]) \notin vowels

apple == <<"a", "p", "p", "l", "e">>

\* C11 (as claimed): the estimate of "apple" is 2
C11_AppleIsTwo ==
    (estIn = apple /\ estOut # -1) => estOut = 2

\* C11 (as amended): the estimate of "apple" is 3: the word has two vowel
\* groups, the silent-e decrement is not applied to a word that ends in "le",
\* and the consonant+le increment is.
C11_AppleIsThree ==
    (estIn = apple /\ estOut # -1) =>
        /\ estOut = 3
        /\ estOut = vowelGroups(estIn, 1, FALSE, 0) + 1

\* C11 witness: "apple" has been estimated
C11_Witness ==
    estIn = apple /\ estOut > 0

\* C12: when the 'active-leaf-change' handler has run for a leaf that is not a
\* Markdown view, the plugin's list of markers is empty and no marker is left in
\* the document.
C12_ContextLostClears ==
    [][(loaded /\ \E v \in Views(MaxElems) : ActiveLeafChange(FALSE, v)) =>
          (syllableMarkers' = <<>> /\ dom' = <<>>)]_vars

\* C12 witness: the handler has removed a displayed marker and none is left
C12_Witness ==
    lost > 0 /\ ~activeView /\ syllableMarkers = <<>> /\ dom = <<>>

\* the line elements within the tolerance of the viewport
visibleLines ==
    {i \in 0..(elems - 1) :
        /\ lineRect(i, scrollTop).bottom >= editorRect.top - VisTol
        /\ lineRect(i, scrollTop).top <= editorRect.bottom + VisTol}

\* the first and last visible line, padded and kept within the line elements
paddedRange ==
    LET first == CHOOSE i \in visibleLines : \A j \in visibleLines : i <= j
        last == CHOOSE i \in visibleLines : \A j \in visibleLines : j <= i
    IN [start |-> Max(0, first - PadLines), end |-> Min(elems - 1, last + PadLines)]

refLower(s) == [i \in 1..Len(s) |-> toLowerCase(s[i])]

\* the tokens of s, as pairs of their first and last position: the maximal runs
\* of letters
refTokens(s) ==
    {t \in (1..Len(s)) \X (1..Len(s)) :
        /\ t[1] <= t[2]
        /\ \A i \in t[1]..t[2] : s[i] \in AZ
        /\ t[1] = 1 \/ s[t[1] - 1] \notin AZ
        /\ t[2] = Len(s) \/ s[t[2] + 1] \notin AZ}

\* the count of the token of s from position i to position j
refToken(s, i, j) ==
    LET isV(k) == s[k] \in {"a", "e", "i", "o", "u", "y"}
        runs == Cardinality({k \in i..j : isV(k) /\ (k = i \/ ~isV(k - 1))})
        endsLe == j > i /\ s[j - 1] = "l" /\ s[j] = "e"
        a == IF s[j] = "e" /\ runs > 1 /\ ~endsLe THEN runs - 1 ELSE runs
        b == IF endsLe /\ j - i + 1 > 2 /\ ~isV(j - 2) THEN a + 1 ELSE a
    IN IF i = j THEN 1 ELSE IF b < 1 THEN 1 ELSE b

RECURSIVE refSum(_, _)
refSum(s, tokens) ==
    IF tokens = {} THEN 0
    ELSE LET t == CHOOSE x \in tokens : TRUE
         IN refToken(s, t[1], t[2]) + refSum(s, tokens \ {t})

refEstimate(s) == refSum(refLower(s), refTokens(refLower(s)))

\* C13: countSyllables returns, for every input, the sum over the tokens of the
\* lowercased input (its maximal runs of letters) of: 1 for a token of one
\* letter; otherwise the number of maximal vowel runs, less 1 if the token ends
\* in "e", has more than one run and does not end in "le", then plus 1 if it ends
\* in "le", is longer than 2 and its third letter from the end is no vowel, and
\* at least 1.  In particular "cat" gives 1 and "banana" gives 3.
C13_EstimatorAlgorithm ==
    estOut # -1 =>
        /\ estOut = refEstimate(estIn)
        /\ estIn = <<"c", "a", "t">> => estOut = 1
        /\ estIn = <<"b", "a", "n", "a", "n", "a">> => estOut = 3

\* C13 witness: "able" was estimated as 3 (two vowel runs, no decrement, the
\* increment) and so is not at the floor
C13_Witness ==
    estIn = <<"a", "b", "l", "e">> /\ estOut = 3

\* the line indices that have a marker in the document
annotatedLines == {dom[k].line : k \in 1..Len(dom)}

\* a pass has completed on the present input with onlyVisibleRange on, an editor
\* and an editor element, and no visible range could be determined
fellBack ==
    /\ ~stale /\ settings.onlyVisibleRange /\ ctx = "ok"
    /\ getVisibleLineRange(elems, scrollTop) = NoRange

\* C15 (as claimed): when no visible range can be determined (no line elements,
\* or none within the tolerance), the pass runs over
\* [0, min(N, maxLinesToProcess) - 1] for the N text lines and emits markers for
\* it: with showZeroSyllables on, one for each line of that range
C15_FallbackByTextLines ==
    (fellBack /\ settings.showZeroSyllables) =>
        annotatedLines = 0..(Min(Len(textLines), settings.maxLinesToProcess) - 1)

\* C15 (as amended): when there are line elements and none is within the
\* tolerance of the viewport, the pass runs over [0, min(E, maxLinesToProcess) - 1]
\* for the E line elements and emits the markers of that range: every text line
\* of index below min(N, E, maxLinesToProcess) with a positive count has one,
\* and with showZeroSyllables on exactly the lines below that index have one.
\* Without line elements the pass ends with no marker.
C15_FallbackByElements ==
    fellBack =>
        IF elems = 0 THEN dom = <<>>
        ELSE LET below == Min(Min(Len(textLines), elems), settings.maxLinesToProcess)
             IN /\ lineRange(elems, scrollTop, settings) =
                       [start |-> 0, end |-> Min(elems, settings.maxLinesToProcess) - 1]
                /\ \A i \in 0..(below - 1) :
                       countSyllables(textLines[i + 1]) > 0 => i \in annotatedLines
                /\ settings.showZeroSyllables => annotatedLines = 0..(below - 1)
                /\ annotatedLines \subseteq 0..(below - 1)

\* C15 witness: a pass has fallen back to the default range and shows two markers
C15_Witness ==
    fellBack /\ elems > 0 /\ Len(dom) = 2 /\ ~settings.showZeroSyllables

\* C16: when a pass has run on a view without editor, editor element or line
\* elements, the list of markers is empty, no marker is in the document (those
\* shown before are removed, none is created) and isProcessing is false.
C16_UnavailableAborts ==
    (~stale /\ ~available(ctx, elems)) =>
        (syllableMarkers = <<>> /\ dom = <<>> /\ ~isProcessing)

\* C16 witness: a pass has run on a view that has an editor element and no line
\* element, for a document whose line would get a marker; none is shown
C16_Witness ==
    /\ ~stale /\ ctx = "ok" /\ elems = 0 /\ content = <<"a">>
    /\ dom = <<>> /\ syllableMarkers = <<>>

\* a pass ends, in any of its ways
passEnds == PassEnd \/ \E k \in 0..MaxElems : PassFail(k)

\* C17: a pass that ends, be it after the append, by an early return or through
\* the catch block, leaves isProcessing false; and isProcessing is true only
\* while a pass is under way, so that no call is turned away when none is.
C17_FlagReleased ==
    /\ [](isProcessing => inFlight > 0)
    /\ [][passEnds => ~isProcessing']_vars
    /\ [][((DebounceFire \/ OrphanFire) /\ inFlight = 0) => inFlight' = 1]_vars

\* C17 witness: a pass has ended through the catch block (a stored marker is not
\* in the document) and the flag is released
C17_Witness ==
    ~isProcessing /\ inFlight = 0 /\ syllableMarkers # <<>> /\ dom = <<>>

\* a pass ends with an exception, having built any number of markers
runFails == \E k \in 0..PassElems : RunPassFail(k)

\* C18 (as claimed): the markers in the document are none or all those of one
\* pass, a pass that fails leaves none, and the plugin's list of markers agrees
\* with the document
C18_AtomicAndAgreeing ==
    /\ [][RunPass => (dom' = shownNow /\ syllableMarkers' = dom')]_vars
    /\ [][runFails => (dom' = <<>> /\ syllableMarkers' = dom')]_vars
    /\ [][dom' # dom => (RunPass \/ runFails)]_vars

\* C18 (as amended): every step leaves the markers in the document as they are,
\* or replaces them by all the markers of one completed pass (which are then
\* also the plugin's list), or, when the pass fails, by none; after a failed
\* pass the plugin's list holds the markers built before the failure, none of
\* them in the document.
C18_AtomicEmission ==
    /\ [][RunPass => (dom' = shownNow /\ syllableMarkers' = dom')]_vars
    /\ [][runFails => (/\ dom' = <<>>
                       /\ Len(syllableMarkers') <= Len(shownNow)
                       /\ syllableMarkers' = SubSeq(shownNow, 1, Len(syllableMarkers')))]_vars
    /\ [][dom' # dom => (RunPass \/ runFails)]_vars

\* C18 witness: a pass has failed after it had built one of its two markers;
\* the document shows none
C18_Witness ==
    /\ stale /\ available(ctx, elems) /\ Len(shownNow) = 2
    /\ Len(syllableMarkers) = 1 /\ dom = <<>>

\* C19 (as claimed): a pass's own removal and insertion of markers in the
\* observed editor does not schedule another pass: no step of a pass sets the
\* timer of the observer's callback
C19_PassSchedulesNothing ==
    [][(DebounceFire \/ OrphanFire \/ passEnds) => (mutPending' => mutPending)]_vars

\* C20 (as claimed): once the 'active-leaf-change' handler has cleared the
\* markers for a leaf that is not a Markdown view, the document shows no marker
\* until a Markdown leaf becomes active
C20_StaysEmpty ==
    lost # -1 => dom = <<>>

\* the set S holds at most limit annotations, at most one per line index, each
\* for a line index that lies in the range the call determined and below the
\* numbers of text lines and of line elements the call read, with the count of
\* the text and the offset of the element the call read at that index
setWithin(S, limit) ==
    /\ Len(S) <= limit
    /\ \A i, j \in 1..Len(S) : S[i].line = S[j].line => i = j
    /\ \A i \in 1..Len(S) :
        /\ S[i].line \in seen.r.start..seen.r.end
        /\ S[i].line < Len(seen.lines)
        /\ S[i].line < seen.n
        /\ S[i].count = countSyllables(seen.lines[S[i].line + 1])
        /\ S[i].top = offsetTop(S[i].line)

\* C21 as stated: whatever triggers, configuration changes and passes came
\* before, the displayed annotations are at most maxLinesToProcess (as
\* configured now), at most one per line index, each for a line index inside
\* the range of the call that made it and below the numbers of text lines and
\* of line elements at that call's start, each with the estimate of the line's
\* text as its count and the line element's offset as its offset.  Violated:
\* saveSettings leaves the annotations in place, so after maxLinesToProcess is
\* lowered there are more of them than the limit until the next pass.
C21_SetWithinConfiguredLimit ==
    setWithin(dom, settings.maxLinesToProcess)

\* C21 (amended): the same, with maxLinesToProcess as it was configured when the
\* call that made the annotations began; it holds of the displayed annotations
\* and of the stored ones, also after a call that threw.
C21_SetWithinLimitOfItsPass ==
    /\ setWithin(syllableMarkers, seen.max)
    /\ setWithin(dom, seen.max)

\* a call that read two line elements, two text lines and a limit of two has
\* displayed two annotations, and maxLinesToProcess has since been lowered
C21_Witness ==
    /\ seen.n = 2 /\ Len(seen.lines) = 2 /\ seen.max = 2
    /\ Len(dom) = 2 /\ dom = syllableMarkers
    /\ settings.maxLinesToProcess = 1
====
